---- MODULE Spec2Model ----
(***************************************************************************)
(* Model of undersort's command line entry point (src/undersort/main.py):  *)
(* the exclusion pattern matcher, the file collector and the orchestration *)
(* loop of main().                                                         *)
(*                                                                         *)
(* A string is a sequence of one-character strings; a path is the sequence *)
(* of its segments (pathlib's Path.parts), the current directory "." being *)
(* the empty sequence.                                                     *)
(***************************************************************************)
EXTENDS Integers, Sequences, FiniteSets, TLC

----------------------------------------------------------------------------
(* Strings *)

\* ASCII codes of the characters in use: str comparison orders by code point.
Ord ==
    [c \in {"*", ".", "/", "?", "a", "b", "e", "h", "n", "p", "s", "t", "v", "x", "y"} |->
        CASE c = "*" -> 42 [] c = "." -> 46 [] c = "/" -> 47 [] c = "?" -> 63
          [] c = "a" -> 97 [] c = "b" -> 98 [] c = "e" -> 101 [] c = "h" -> 104
          [] c = "n" -> 110 [] c = "p" -> 112 [] c = "s" -> 115 [] c = "t" -> 116
          [] c = "v" -> 118 [] c = "x" -> 120 [] c = "y" -> 121]

RECURSIVE StrLess(_, _)
StrLess(s, t) ==
    IF t = <<>> THEN FALSE
    ELSE IF s = <<>> THEN TRUE
    ELSE IF Head(s) = Head(t) THEN StrLess(Tail(s), Tail(t))
    ELSE Ord[Head(s)] < Ord[Head(t)]

\* str.startswith(".")
StartsWithDot(s) == s # <<>> /\ Head(s) = "."

\* "/" in pattern
HasSep(s) == \E i \in 1..Len(s) : s[i] = "/"

\* fnmatch.fnmatch(name, pat) on a POSIX system (normcase is the identity):
\* "*" matches any run of characters, "/" included, "?" any one character,
\* any other character itself; the whole of name must match. The patterns
\* drawn below hold no "[", so character classes do not arise.
RECURSIVE fnmatch(_, _)
fnmatch(name, pat) ==
    IF pat = <<>> THEN name = <<>>
    ELSE IF Head(pat) = "*"
        THEN fnmatch(name, Tail(pat)) \/ (name # <<>> /\ fnmatch(Tail(name), pat))
    ELSE /\ name # <<>>
         /\ (Head(pat) = "?" \/ Head(pat) = Head(name))
         /\ fnmatch(Tail(name), Tail(pat))

----------------------------------------------------------------------------
(* Paths *)

\* str(path): the segments joined by "/", "." for the empty path.
RECURSIVE JoinParts(_)
JoinParts(parts) ==
    IF Len(parts) = 1 THEN parts[1]
    ELSE parts[1] \o <<"/">> \o JoinParts(Tail(parts))

PathStr(path) == IF path = <<>> THEN <<".">> ELSE JoinParts(path)

\* path.name: the final segment, "" for the empty path.
PathName(path) == IF path = <<>> THEN <<>> ELSE path[Len(path)]

\* path.suffix: name[i:] for i = name.rfind("."), when 0 < i < len(name) - 1
\* (0-based), "" otherwise.
PathSuffix(path) ==
    LET name == PathName(path)
        dots == {i \in 1..Len(name) : name[i] = "."}
    IN  IF dots = {} THEN <<>>
        ELSE LET i == CHOOSE d \in dots : \A e \in dots : e <= d
             IN  IF 1 < i /\ i < Len(name) THEN SubSeq(name, i, Len(name)) ELSE <<>>

\* Path.__lt__: the segment lists compared lexicographically.
RECURSIVE PathLess(_, _)
PathLess(p, q) ==
    IF q = <<>> THEN FALSE
    ELSE IF p = <<>> THEN TRUE
    ELSE IF Head(p) = Head(q) THEN PathLess(Tail(p), Tail(q))
    ELSE StrLess(Head(p), Head(q))

\* sorted(files) for a collection of distinct paths.
RECURSIVE sorted(_)
sorted(files) ==
    IF files = {} THEN <<>>
    ELSE LET least == CHOOSE f \in files : \A g \in files \ {f} : PathLess(f, g)
         IN  <<least>> \o sorted(files \ {least})

----------------------------------------------------------------------------
(* The file system the run sees: regular files and directories, relative to *)
(* the working directory.                                                   *)

a_py  == <<"a", ".", "p", "y">>
b_py  == <<"b", ".", "p", "y">>
b_txt == <<"b", ".", "t", "x", "t">>
venv  == <<"v", "e", "n", "v">>

Files ==
    { <<a_py>>, <<b_txt>>, << <<"t">>, a_py >>, << <<"t">>, <<"s">>, b_py >>,
      <<venv, a_py>>, << <<".", "h">>, a_py >> }

Dirs == { <<>>, << <<"t">> >>, << <<"t">>, <<"s">> >>, <<venv>>, << <<".", "h">> >> }

\* A path that does not exist.
Missing == << <<"x">> >>

\* path.exists()
exists(path) == path \in Files \cup Dirs

\* path.glob("**/*.py") (recursive) or path.glob("*.py"): the entries below
\* path, at any depth or at depth one, whose name matches "*.py"; each is
\* path joined with the entry's relative path.
glob(path, recursive) ==
    {f \in Files \cup Dirs :
        /\ Len(f) > Len(path)
        /\ SubSeq(f, 1, Len(path)) = path
        /\ (recursive \/ Len(f) = Len(path) + 1)
        /\ fnmatch(PathName(f), <<"*", ".", "p", "y">>)}

----------------------------------------------------------------------------
(* _matches_any_pattern *)

\* PatternMatches without the `continue` of line 69: a pattern without a
\* separator goes on to the path-anchored checks.
PatternMatches_NoContinue(file_path, pattern) ==
    \/ fnmatch(PathStr(file_path), pattern)
    \/ (~HasSep(pattern) /\ fnmatch(PathName(file_path), pattern))
    \/ fnmatch(PathStr(file_path), <<"*", "/">> \o pattern)
    \/ \E part_idx \in 0..(Len(file_path) - 1) :
         fnmatch(PathStr(SubSeq(file_path, part_idx + 1, Len(file_path))), pattern)

\* One iteration of the loop over patterns: TRUE when the iteration returns
\* True, FALSE when it goes on to the next pattern.
PatternMatches(file_path, pattern) ==
    \/ fnmatch(PathStr(file_path), pattern)
    \/ IF ~HasSep(pattern)
       THEN fnmatch(PathName(file_path), pattern)
       ELSE \/ fnmatch(PathStr(file_path), <<"*", "/">> \o pattern)
            \/ \E part_idx \in 0..(Len(file_path) - 1) :
                 fnmatch(PathStr(SubSeq(file_path, part_idx + 1, Len(file_path))), pattern)

\* _matches_any_pattern with `return False` in place of the `continue` of
\* line 69: a pattern without a separator that fails ends the search.
RECURSIVE matches_ReturnFalse(_, _)
matches_ReturnFalse(file_path, patterns) ==
    IF patterns = <<>> THEN FALSE
    ELSE IF PatternMatches(file_path, Head(patterns)) THEN TRUE
    ELSE IF ~HasSep(Head(patterns)) THEN FALSE
    ELSE matches_ReturnFalse(file_path, Tail(patterns))

RECURSIVE _matches_any_pattern(_, _)
_matches_any_pattern(file_path, patterns) ==
    IF patterns = <<>> THEN FALSE
    ELSE IF PatternMatches(file_path, Head(patterns)) THEN TRUE
    ELSE _matches_any_pattern(file_path, Tail(patterns))

----------------------------------------------------------------------------
(* collect_python_files *)

exclude_dirs ==
    { venv,
      <<"_", "_", "p", "y", "c", "a", "c", "h", "e", "_", "_">>,
      <<"n", "o", "d", "e", "_", "m", "o", "d", "u", "l", "e", "s">> }

\* The test of the comprehension at line 39.
HasExcludedPart(f) ==
    \E i \in 1..Len(f) : f[i] \in exclude_dirs \/ (StartsWithDot(f[i]) /\ f[i] # <<".">>)

\* exclude_patterns is the empty sequence when the caller passes None.
collect_python_files(path, recursive, exclude_patterns) ==
    IF path \in Files
    THEN IF PathSuffix(path) = <<".", "p", "y">> THEN <<path>> ELSE <<>>
    ELSE IF path \in Dirs
    THEN LET globbed == glob(path, recursive)
             filtered_files == {f \in globbed : ~HasExcludedPart(f)}
             kept == IF exclude_patterns # <<>>
                     THEN {f \in filtered_files : ~_matches_any_pattern(f, exclude_patterns)}
                     ELSE filtered_files
         IN  sorted(kept)
    ELSE <<>>

----------------------------------------------------------------------------
(* main(): one command invocation *)

VARIABLES
    paths,            \* args.paths
    check,            \* args.check
    diff,             \* args.diff
    recursive,        \* args.recursive
    config_exclude,   \* config.get("exclude"), <<>> when absent
    args_exclude,     \* args.exclude, <<>> when absent
    pc,               \* "Collecting", "Processing" or "Terminal"
    path_idx,         \* position of the loop over args.paths
    all_files,
    file_idx,         \* position of the loop over all_files
    modified_files,
    errors,
    log,              \* the logger calls made so far, in order
    collect_calls,    \* the calls of collect_python_files: argument and result
    sort_calls,       \* the calls of sort_file: arguments and outcome
    exit_code,        \* the value main() returned, -1 while it runs
    c_root, c_recursive, c_patterns, c_result, c_done,   \* a call of collect_python_files
    m_path, m_A, m_B, m_res, m_done                      \* calls of _matches_any_pattern

run_vars ==
    <<paths, check, diff, recursive, config_exclude, args_exclude, pc, path_idx,
      all_files, file_idx, modified_files, errors, log, collect_calls, sort_calls,
      exit_code>>
collect_vars == <<c_root, c_recursive, c_patterns, c_result, c_done>>
match_vars == <<m_path, m_A, m_B, m_res, m_done>>
vars == <<run_vars, collect_vars, match_vars>>

\* Most paths on one command line.
MaxPaths == 2

\* Sequences over S of length lo..hi.
SeqsOf(S, lo, hi) == UNION {[1..n -> S] : n \in lo..hi}

\* The paths given on the command line.
PathArgs == { << <<"t">> >>, << <<"t">>, a_py >>, <<b_txt>>, Missing }

\* The exclusion patterns of the configuration and of --exclude: "s/*", "b*".
ConfigExcludes == { <<>>, << <<"s", "/", "*">> >> }
ArgsExcludes == { <<>>, << <<"b", "*">> >> }

\* What one call of sort_file does: return False, return True, or raise.
SorterOutcomes == {"unmodified", "modified", "raises"}

Msg(level, text, path, count) ==
    [level |-> level, text |-> text, path |-> path, count |-> count]

CollectIdle ==
    /\ c_root = <<>> /\ c_recursive = TRUE /\ c_patterns = <<>>
    /\ c_result = <<>> /\ c_done = FALSE
MatchIdle ==
    /\ m_path = <<>> /\ m_A = <<>> /\ m_B = <<>>
    /\ m_res = [ab |-> FALSE, ba |-> FALSE, a |-> FALSE, b |-> FALSE] /\ m_done = FALSE
RunIdle ==
    /\ paths = <<>> /\ check = FALSE /\ diff = FALSE /\ recursive = TRUE
    /\ config_exclude = <<>> /\ args_exclude = <<>>
    /\ pc = "Terminal" /\ path_idx = 1 /\ all_files = <<>> /\ file_idx = 1
    /\ modified_files = <<>> /\ errors = FALSE /\ log = <<>>
    /\ collect_calls = <<>> /\ sort_calls = <<>> /\ exit_code = -1

\* Lines 118-123.
exclude_patterns == config_exclude \o args_exclude

\* The state after argument parsing and configuration loading (lines 114-125).
Init ==
    /\ paths \in SeqsOf(PathArgs, 1, MaxPaths)
    /\ check \in BOOLEAN
    /\ diff \in BOOLEAN
    /\ recursive \in BOOLEAN
    /\ config_exclude \in ConfigExcludes
    /\ args_exclude \in ArgsExcludes
    /\ pc = "Collecting"
    /\ path_idx = 1
    /\ all_files = <<>>
    /\ file_idx = 1
    /\ modified_files = <<>>
    /\ errors = FALSE
    /\ log = <<>>
    /\ collect_calls = <<>>
    /\ sort_calls = <<>>
    /\ exit_code = -1
    /\ CollectIdle
    /\ MatchIdle

\* PathNotFound with the missing path fatal: the run ends with exit code 1.
PathNotFound_Fatal ==
    /\ pc = "Collecting"
    /\ path_idx <= Len(paths)
    /\ ~exists(paths[path_idx])
    /\ log' = Append(log, Msg("error", "Path not found", paths[path_idx], 0))
    /\ path_idx' = path_idx + 1
    /\ exit_code' = 1
    /\ pc' = "Terminal"
    /\ UNCHANGED <<paths, check, diff, recursive, config_exclude, args_exclude,
                   all_files, file_idx, modified_files, errors, collect_calls,
                   sort_calls, collect_vars, match_vars>>

\* Lines 126-129: an input path that does not exist.
PathNotFound ==
    /\ pc = "Collecting"
    /\ path_idx <= Len(paths)
    /\ ~exists(paths[path_idx])
    /\ log' = Append(log, Msg("error", "Path not found", paths[path_idx], 0))
    /\ path_idx' = path_idx + 1
    /\ UNCHANGED <<paths, check, diff, recursive, config_exclude, args_exclude, pc,
                   all_files, file_idx, modified_files, errors, collect_calls,
                   sort_calls, exit_code, collect_vars, match_vars>>

\* Lines 126-132: an input path that exists.
CollectPath ==
    /\ pc = "Collecting"
    /\ path_idx <= Len(paths)
    /\ exists(paths[path_idx])
    /\ LET python_files ==
               collect_python_files(paths[path_idx], recursive, exclude_patterns)
       IN  /\ all_files' = all_files \o python_files
           /\ collect_calls' =
                  Append(collect_calls, [path |-> paths[path_idx], result |-> python_files])
    /\ path_idx' = path_idx + 1
    /\ UNCHANGED <<paths, check, diff, recursive, config_exclude, args_exclude, pc,
                   file_idx, modified_files, errors, log, sort_calls, exit_code,
                   collect_vars, match_vars>>

\* NoFilesFound returning 1 instead of 0.
NoFilesFound_Exit1 ==
    /\ pc = "Collecting"
    /\ path_idx > Len(paths)
    /\ all_files = <<>>
    /\ log' = Append(log, Msg("warning", "No Python files found", <<>>, 0))
    /\ exit_code' = 1
    /\ pc' = "Terminal"
    /\ UNCHANGED <<paths, check, diff, recursive, config_exclude, args_exclude,
                   path_idx, all_files, file_idx, modified_files, errors,
                   collect_calls, sort_calls, collect_vars, match_vars>>

\* Lines 134-136.
NoFilesFound ==
    /\ pc = "Collecting"
    /\ path_idx > Len(paths)
    /\ all_files = <<>>
    /\ log' = Append(log, Msg("warning", "No Python files found", <<>>, 0))
    /\ exit_code' = 0
    /\ pc' = "Terminal"
    /\ UNCHANGED <<paths, check, diff, recursive, config_exclude, args_exclude,
                   path_idx, all_files, file_idx, modified_files, errors,
                   collect_calls, sort_calls, collect_vars, match_vars>>

\* Lines 134, 138-139.
StartProcessing ==
    /\ pc = "Collecting"
    /\ path_idx > Len(paths)
    /\ all_files # <<>>
    /\ modified_files' = <<>>
    /\ errors' = FALSE
    /\ pc' = "Processing"
    /\ UNCHANGED <<paths, check, diff, recursive, config_exclude, args_exclude,
                   path_idx, all_files, file_idx, log, collect_calls, sort_calls,
                   exit_code, collect_vars, match_vars>>

\* NextFile with an exception ending the loop over all_files.
NextFile_AbortOnRaise(outcome) ==
    IF outcome = "raises" THEN Len(all_files) + 1 ELSE file_idx + 1

\* The loop over all_files goes on to the next file after every outcome: the
\* `continue` of line 152, the end of the try body, the end of the handler.
NextFile(outcome) == file_idx + 1

\* Lines 141-160: one iteration of the loop over all_files.
SortFile ==
    /\ pc = "Processing"
    /\ file_idx <= Len(all_files)
    /\ \E outcome \in SorterOutcomes :
         LET file_path == all_files[file_idx]
         IN  /\ sort_calls' =
                    Append(sort_calls, [file_path |-> file_path, check_only |-> check,
                                        show_diff |-> diff, outcome |-> outcome])
             /\ CASE outcome = "unmodified" ->
                       UNCHANGED <<modified_files, log, errors>>
                  [] outcome = "modified" ->
                       /\ modified_files' = Append(modified_files, file_path)
                       /\ log' = IF ~check
                                 THEN Append(log, Msg("success", "Sorted", file_path, 0))
                                 ELSE log
                       /\ UNCHANGED errors
                  [] outcome = "raises" ->
                       /\ log' = Append(log, Msg("error", "Error processing", file_path, 0))
                       /\ errors' = TRUE
                       /\ UNCHANGED modified_files
             /\ file_idx' = NextFile(outcome)
    /\ UNCHANGED <<paths, check, diff, recursive, config_exclude, args_exclude, pc,
                   path_idx, all_files, collect_calls, exit_code, collect_vars,
                   match_vars>>

\* console.print of each flagged file (lines 164-165).
FlaggedList(modified) ==
    [i \in 1..Len(modified) |-> Msg("print", "item", modified[i], 0)]

\* Summary with `if not modified_files:` at line 168, the error flag ignored.
Summary_IgnoreErrors(chk, modified, errs) ==
    IF chk /\ modified # <<>>
    THEN <<Msg("warning", "Files that need sorting", <<>>, Len(modified))>>
             \o FlaggedList(modified)
    ELSE IF modified = <<>>
    THEN <<Msg("info", "All files are already sorted correctly", <<>>, 0)>>
    ELSE IF modified # <<>> /\ ~chk
    THEN <<Msg("success", "Sorted file(s) successfully", <<>>, Len(modified))>>
    ELSE <<>>

\* The messages of the post-loop report (lines 162-171).
Summary(chk, modified, errs) ==
    IF chk /\ modified # <<>>
    THEN <<Msg("warning", "Files that need sorting", <<>>, Len(modified))>>
             \o FlaggedList(modified)
    ELSE IF modified = <<>> /\ ~errs
    THEN <<Msg("info", "All files are already sorted correctly", <<>>, 0)>>
    ELSE IF modified # <<>> /\ ~chk
    THEN <<Msg("success", "Sorted file(s) successfully", <<>>, Len(modified))>>
    ELSE <<>>

\* ReturnCode without the `return 1` of line 166.
ReturnCode_ErrorsOnly(chk, modified, errs) == IF errs THEN 1 ELSE 0

\* The value main() returns after the loop (lines 162, 166, 173).
ReturnCode(chk, modified, errs) ==
    IF chk /\ modified # <<>> THEN 1
    ELSE IF errs THEN 1 ELSE 0

\* Lines 162-173.
Report ==
    /\ pc = "Processing"
    /\ file_idx > Len(all_files)
    /\ log' = log \o Summary(check, modified_files, errors)
    /\ exit_code' = ReturnCode(check, modified_files, errors)
    /\ pc' = "Terminal"
    /\ UNCHANGED <<paths, check, diff, recursive, config_exclude, args_exclude,
                   path_idx, all_files, file_idx, modified_files, errors,
                   collect_calls, sort_calls, collect_vars, match_vars>>

Next ==
    \/ PathNotFound
    \/ CollectPath
    \/ NoFilesFound
    \/ StartProcessing
    \/ SortFile
    \/ Report

Spec == Init /\ [][Next]_vars

----------------------------------------------------------------------------
(* collect_python_files on its own: one call on any root of the file system *)

\* Most patterns in one list of exclusion patterns.
MaxPats == 1

\* The roots a caller may pass: every file, every directory, a missing path.
Roots == Files \cup Dirs \cup {Missing}

\* "s/*", "b*", "a.py", "t/*"
FsPatterns ==
    { <<"s", "/", "*">>, <<"b", "*">>, a_py, <<"t", "/", "*">> }

InitCollect ==
    /\ c_root \in Roots
    /\ c_recursive \in BOOLEAN
    /\ c_patterns \in SeqsOf(FsPatterns, 0, MaxPats)
    /\ c_result = <<>>
    /\ c_done = FALSE
    /\ RunIdle
    /\ MatchIdle

Collect ==
    /\ ~c_done
    /\ c_result' = collect_python_files(c_root, c_recursive, c_patterns)
    /\ c_done' = TRUE
    /\ UNCHANGED <<c_root, c_recursive, c_patterns, run_vars, match_vars>>

NextCollect == Collect

SpecCollect == InitCollect /\ [][NextCollect]_vars

----------------------------------------------------------------------------
(* _matches_any_pattern on its own: a path against two pattern lists *)

\* Longest pattern of the exhaustively enumerated single patterns.
MaxPatLen == 2

PatChars == {"a", "b", "*", "?", "/"}

\* Every pattern of up to MaxPatLen characters.
GenPatterns == SeqsOf(PatChars, 1, MaxPatLen)

\* "a", "b*", "a/*", "*/b", "b/a", "?b"
ListPatterns ==
    { <<"a">>, <<"b", "*">>, <<"a", "/", "*">>, <<"*", "/", "b">>, <<"b", "/", "a">>,
      <<"?", "b">> }

\* a, b, a/b, b/a, a/a, ab/b, a/ab, a/b/a, b/a/b, a/ab/b
MatchPaths ==
    LET a == <<"a">>  b == <<"b">>  ab == <<"a", "b">>
    IN  { <<a>>, <<b>>, <<a, b>>, <<b, a>>, <<a, a>>, <<ab, b>>, <<a, ab>>,
          <<a, b, a>>, <<b, a, b>>, <<a, ab, b>> }

InitMatch ==
    /\ m_path \in MatchPaths
    /\ m_A \in SeqsOf(ListPatterns, 0, MaxPats) \cup {<<p>> : p \in GenPatterns}
    /\ m_B \in SeqsOf(ListPatterns, 0, MaxPats)
    /\ m_res = [ab |-> FALSE, ba |-> FALSE, a |-> FALSE, b |-> FALSE]
    /\ m_done = FALSE
    /\ RunIdle
    /\ CollectIdle

\* The matcher applied to the concatenations A ++ B, B ++ A and to A and B.
Match ==
    /\ ~m_done
    /\ m_res' = [ab |-> _matches_any_pattern(m_path, m_A \o m_B),
                 ba |-> _matches_any_pattern(m_path, m_B \o m_A),
                 a  |-> _matches_any_pattern(m_path, m_A),
                 b  |-> _matches_any_pattern(m_path, m_B)]
    /\ m_done' = TRUE
    /\ UNCHANGED <<m_path, m_A, m_B, run_vars, collect_vars>>

NextMatch == Match

SpecMatch == InitMatch /\ [][NextMatch]_vars

----------------------------------------------------------------------------
(* Properties of main() *)

Finished == pc = "Terminal"

\* The run reached the loop over all_files.
LoopReached == pc # "Collecting" /\ all_files # <<>>

SomeRaised == \E i \in 1..Len(sort_calls) : sort_calls[i].outcome = "raises"
SomeFlagged == \E i \in 1..Len(sort_calls) : sort_calls[i].outcome = "modified"

\* The paths of the messages of one kind, in the order logged.
Logged(level, text) ==
    LET hits == SelectSeq(log, LAMBDA m : m.level = level /\ m.text = text)
    IN  [i \in 1..Len(hits) |-> hits[i].path]

\* The counts of the messages of one kind, in the order logged.
LoggedCounts(level, text) ==
    LET hits == SelectSeq(log, LAMBDA m : m.level = level /\ m.text = text)
    IN  [i \in 1..Len(hits) |-> hits[i].count]

\* The files of the sort_file calls that returned True, in call order.
FlaggedFiles ==
    LET hits == SelectSeq(sort_calls, LAMBDA c : c.outcome = "modified")
    IN  [i \in 1..Len(hits) |-> hits[i].file_path]

RECURSIVE Flatten(_)
Flatten(seqs) == IF seqs = <<>> THEN <<>> ELSE Head(seqs) \o Flatten(Tail(seqs))

CheckWarnings == LoggedCounts("warning", "Files that need sorting")
AlreadySorted == LoggedCounts("info", "All files are already sorted correctly")
SuccessSummaries == LoggedCounts("success", "Sorted file(s) successfully")

\* C1: a finished run that reached the processing loop returned 1 exactly
\* when some sort_file call raised, or --check was given and some call
\* returned True; otherwise it returned 0.
C1_ExitCode ==
    (Finished /\ LoopReached) =>
        /\ exit_code \in {0, 1}
        /\ exit_code = 1 <=> (SomeRaised \/ (check /\ SomeFlagged))

\* Witness of C1: a check run without errors that flagged a file and returned
\* 1 after another file was left alone.
C1_Witness ==
    /\ Finished /\ LoopReached /\ check /\ ~SomeRaised /\ SomeFlagged
    /\ \E i \in 1..Len(sort_calls) : sort_calls[i].outcome = "unmodified"
    /\ exit_code = 1

\* C2 (as claimed): in a finished --check run in which sort_file flagged a file,
\* the exit code is 1, every flagged file is listed exactly once after the
\* loop, and every sort_file call had check_only = TRUE.
C2_ListedOnce ==
    (Finished /\ check /\ SomeFlagged) =>
        /\ exit_code = 1
        /\ \A i \in 1..Len(FlaggedFiles) :
             Cardinality({j \in 1..Len(log) :
                 log[j] = Msg("print", "item", FlaggedFiles[i], 0)}) = 1
        /\ \A i \in 1..Len(sort_calls) : sort_calls[i].check_only

\* C3: sort_file is called once per element of all_files, in list order,
\* whatever the earlier calls did; every file whose call returned True is
\* recorded, and announced when not in check mode, also after an earlier call
\* raised; a finished run in which a call raised returned 1.
C3_BatchContinues ==
    /\ LoopReached =>
         /\ Len(sort_calls) = file_idx - 1
         /\ \A i \in 1..Len(sort_calls) : sort_calls[i].file_path = all_files[i]
         /\ modified_files = FlaggedFiles
         /\ Logged("success", "Sorted") = (IF check THEN <<>> ELSE FlaggedFiles)
    /\ (Finished /\ LoopReached) =>
         /\ Len(sort_calls) = Len(all_files)
         /\ SomeRaised => exit_code = 1

\* Witness of C3: a finished run, not in check mode, whose first call raised
\* and whose second call returned True.
C3_Witness ==
    /\ Finished /\ ~check /\ Len(sort_calls) >= 2
    /\ sort_calls[1].outcome = "raises"
    /\ sort_calls[2].outcome = "modified"
    /\ modified_files = <<all_files[2]>>
    /\ exit_code = 1

\* The input paths handled so far.
Handled == SubSeq(paths, 1, path_idx - 1)

\* C4: every missing input path handled so far produced one error message and
\* no collector call; once all paths are handled, all_files is the
\* concatenation, in argument order, of the collector results for the existing
\* paths; and an exit code of 1 always comes from the sort_file calls.
C4_MissingPath ==
    /\ Logged("error", "Path not found") = SelectSeq(Handled, LAMBDA q : ~exists(q))
    /\ [i \in 1..Len(collect_calls) |-> collect_calls[i].path]
           = SelectSeq(Handled, exists)
    /\ pc # "Collecting" =>
         /\ Handled = paths
         /\ all_files = Flatten([i \in 1..Len(collect_calls) |->
                collect_python_files(collect_calls[i].path, recursive, exclude_patterns)])
    /\ Finished => (exit_code = 1 => (SomeRaised \/ (check /\ SomeFlagged)))

\* Witness of C4: a finished run whose first path was missing and whose second
\* path yielded files, returning 0.
C4_Witness ==
    /\ Finished /\ Len(paths) = 2 /\ ~exists(paths[1]) /\ exists(paths[2])
    /\ all_files # <<>> /\ Len(sort_calls) = Len(all_files)
    /\ exit_code = 0

\* C5: a run whose aggregate file list is empty ends with the 'no files
\* found' warning and exit code 0, without a sort_file call and without a
\* summary message.
C5_NoFiles ==
    (Finished /\ all_files = <<>>) =>
        /\ exit_code = 0
        /\ sort_calls = <<>>
        /\ Len(Logged("warning", "No Python files found")) = 1
        /\ log[Len(log)] = Msg("warning", "No Python files found", <<>>, 0)
        /\ CheckWarnings = <<>> /\ AlreadySorted = <<>> /\ SuccessSummaries = <<>>
        /\ \A i \in 1..Len(log) : log[i].text # "item"

\* Witness of C5: the only argument is an existing file that is not a .py
\* file, with --check and --diff.
C5_Witness ==
    /\ Finished /\ paths = << <<b_txt>> >> /\ check /\ diff
    /\ all_files = <<>> /\ exit_code = 0

\* C10: a finished run that reached the post-loop report emitted at most one
\* summary: the check warning with the count iff --check and a file was
\* flagged; otherwise 'already sorted' iff nothing was flagged and nothing
\* raised; otherwise the success summary with the count iff a file was flagged
\* outside check mode. 'Already sorted' never shares a run with a per-file
\* error, and check mode logs no success message.
C10_Summary ==
    /\ (Finished /\ LoopReached) =>
         /\ Len(CheckWarnings) + Len(AlreadySorted) + Len(SuccessSummaries) <= 1
         /\ CheckWarnings = (IF check /\ SomeFlagged THEN <<Len(FlaggedFiles)>> ELSE <<>>)
         /\ ~(check /\ SomeFlagged) =>
              /\ AlreadySorted # <<>> <=> (~SomeFlagged /\ ~SomeRaised)
              /\ ~(~SomeFlagged /\ ~SomeRaised) =>
                   SuccessSummaries =
                       (IF SomeFlagged /\ ~check THEN <<Len(FlaggedFiles)>> ELSE <<>>)
    /\ ~(AlreadySorted # <<>> /\ Logged("error", "Error processing") # <<>>)
    /\ check => \A i \in 1..Len(log) : log[i].level # "success"

\* Witness of C10: a finished run, not in check mode, in which one call raised
\* and another returned True, ending with the success summary.
C10_Witness ==
    /\ Finished /\ ~check /\ SomeRaised /\ SomeFlagged
    /\ SuccessSummaries = <<Len(FlaggedFiles)>>
    /\ AlreadySorted = <<>>

----------------------------------------------------------------------------
(* Properties of collect_python_files *)

\* C6 (as claimed): with a non-empty pattern list, no path returned by
\* collect_python_files matches the pattern list, whatever the root.
C6_NoExcludedFile ==
    (c_done /\ c_patterns # <<>>) =>
        \A i \in 1..Len(c_result) : ~_matches_any_pattern(c_result[i], c_patterns)

\* C7 (as claimed): no path returned by collect_python_files has a segment
\* named venv, __pycache__ or node_modules, or a segment other than "." that
\* starts with ".", whatever the root and the patterns.
C7_NoDeniedSegment ==
    c_done => \A i \in 1..Len(c_result) : ~HasExcludedPart(c_result[i])

----------------------------------------------------------------------------
(* Properties of _matches_any_pattern *)

\* One pattern without a separator against a path of two or more segments.
BarePatternCase ==
    m_done /\ Len(m_path) >= 2 /\ Len(m_A) = 1 /\ ~HasSep(m_A[1])

\* C8 (as claimed): a single pattern without "/" matches a path of two or
\* more segments only if the basename of the path matches the pattern.
C8_BasenameOnly ==
    BarePatternCase => (m_res.a => fnmatch(PathName(m_path), m_A[1]))

\* C8 (amended): a single pattern without "/" matches a path of two or more
\* segments only if the basename of the path matches the pattern or the whole
\* path string does, a "*" or "?" of the pattern matching the "/".
C8_BasenameOrWholePath ==
    BarePatternCase =>
        (m_res.a => \/ fnmatch(PathName(m_path), m_A[1])
                    \/ fnmatch(PathStr(m_path), m_A[1]))

\* Witness of C8: a pattern without "/" that matches a path of two or more
\* segments whose basename it does not match.
C8_Witness ==
    BarePatternCase /\ m_res.a /\ ~fnmatch(PathName(m_path), m_A[1])

\* C9: a path matches A ++ B exactly when it matches B ++ A, and exactly when
\* it matches A or matches B.
C9_Union ==
    m_done =>
        /\ m_res.ab = m_res.ba
        /\ m_res.ab = (m_res.a \/ m_res.b)

\* Witness of C9: A holds a pattern without "/" that fails, B a pattern that
\* matches, and the path matches A ++ B.
C9_Witness ==
    /\ m_done /\ Len(m_A) = 1 /\ ~HasSep(m_A[1]) /\ Len(m_B) = 1
    /\ ~m_res.a /\ m_res.b /\ m_res.ab /\ m_res.ba

====
